---- MODULE Spec2Model ----
(***************************************************************************)
(* State-machine model of tiny_tp::ThreadPool (src/tiny_tp.hpp).           *)
(*                                                                         *)
(* Threads: kNumThreads detached workers running ThreadPool::Cycle, and    *)
(* the threads calling the public operations (Drop, GrabAllResults, the    *)
(* destructor).  A worker's position is the source line it is about to     *)
(* execute.  The public operations hold one std::lock_guard for their      *)
(* whole body and are therefore single steps guarded by the mutex being    *)
(* free; the worker cycle is split at every lock acquisition and release.  *)
(***************************************************************************)
EXTENDS Integers, Sequences, FiniteSets, TLC

\* ---- bounds of the model ------------------------------------------------
\* largest num_threads given to the constructor
MaxThreads == 2
\* largest max_queue_size given to the constructor
MaxQueueSize == 2
\* calls of Drop made by the users of the pool
MaxTasks == 2
\* calls of GrabAllResults made by the users of the pool
MaxGrabs == 2

\* The threads a pool can have.
ThreadIds == 1..MaxThreads

\* The ids the tasks handed to Drop can have: a task's id is the position of
\* its Drop call among all calls (the users' and the destructor's).
TaskIds == 1..(MaxTasks + MaxThreads)

\* ---- values ---------------------------------------------------------------
\* std::shared_ptr<void> results: nullptr, the pool's exit_mark_, or a fresh
\* allocation made by an ordinary task (identified by the task's id > 0).
NullPtr == 0
ExitMarkPtr == -1

\* A mutex is free or owned by a worker (1..kNumThreads).
Free == 0

\* The task local of a worker that holds none.
NoTask == [kind |-> "none", id |-> 0, ret |-> "null"]

\* An ordinary ITask: ret is what its Execute returns ("null" or "val").
Task(id, ret) == [kind |-> "task", id |-> id, ret |-> ret]

\* ThreadPool::QuitTask, carrying the pool's exit_mark_.
QuitTask(id) == [kind |-> "quit", id |-> id, ret |-> "exit"]

VARIABLES
  kNumThreads,         \* const uint32_t kNumThreads
  kMaxQueueSize,       \* const uint32_t kMaxQueueSize
  waiting_queue_,      \* std::queue<std::shared_ptr<ITask>>
  results_queue_,      \* std::queue<std::shared_ptr<void>>
  threads_idle_,       \* std::unordered_map<std::thread::id, bool>
  exit_mark_,          \* *exit_mark_, the stop-acknowledgement counter
  waiting_queue_mtx_,  \* owner of the task-queue mutex
  results_queue_mtx_,  \* owner of the result-buffer mutex
  threads_idle_mtx_,   \* owner of the idle-map mutex
  pc,                  \* worker -> line of Cycle it is at
  task,                \* worker -> local `task`
  result,              \* worker -> local `result`
  reg,                 \* worker -> value read by ++(*exit_mark_)
  owner_pc,            \* "alive", or the destructor's line, or "destroyed"
  dtor_i,              \* the destructor's loop variable i
  drop_log,            \* history: every call of Drop, with its return value
  deq_log,             \* history: every task popped from the queue, in order
  exec_count,          \* history: task id -> number of Execute calls on it
  done_log,            \* history: the values returned by Execute, in order
  pub_log,             \* history: every result pushed to results_queue_
  drain_log            \* history: every GrabAllResults return value

pool == <<kNumThreads, kMaxQueueSize, waiting_queue_, results_queue_,
          threads_idle_, exit_mark_>>
mtxs == <<waiting_queue_mtx_, results_queue_mtx_, threads_idle_mtx_>>
locals == <<task, result, reg>>
owner == <<owner_pc, dtor_i>>
logs == <<drop_log, deq_log, exec_count, done_log, pub_log, drain_log>>
vars == <<pool, mtxs, pc, locals, owner, logs>>

Workers == 1..kNumThreads

\* std::unordered_map::operator[] then assignment: the entry is created when
\* the key is absent.
MapSet(m, key, v) == [x \in DOMAIN m \cup {key} |-> IF x = key THEN v ELSE m[x]]

\* The constructor taking get_id() after detach(): every thread is entered
\* under the one id of a non-joinable thread (0 here).
SpawnedIdle_detached(n) == [w \in (IF n > 0 THEN {0} ELSE {}) |-> TRUE]

\* The constructor's loop over the spawned threads (lines 98-102): the id of
\* each thread, taken before it is detached, is entered as idle.
SpawnedIdle(n) == [w \in 1..n |-> TRUE]

\* ---- construction ---------------------------------------------------------
\* ThreadPool::ThreadPool: every spawned thread is entered in threads_idle_
\* as idle and starts Cycle; exit_mark_ points to a fresh 0.
Init ==
  /\ kNumThreads \in 0..MaxThreads
  /\ kMaxQueueSize \in 0..MaxQueueSize
  /\ waiting_queue_ = <<>>
  /\ results_queue_ = <<>>
  /\ threads_idle_ = SpawnedIdle(kNumThreads)
  /\ exit_mark_ = 0
  /\ waiting_queue_mtx_ = Free
  /\ results_queue_mtx_ = Free
  /\ threads_idle_mtx_ = Free
  /\ pc = [w \in 1..kNumThreads |-> "L158"]
  /\ task = [w \in 1..kNumThreads |-> NoTask]
  /\ result = [w \in 1..kNumThreads |-> NullPtr]
  /\ reg = [w \in 1..kNumThreads |-> 0]
  /\ owner_pc = "alive"
  /\ dtor_i = 0
  /\ drop_log = <<>>
  /\ deq_log = <<>>
  /\ exec_count = [id \in TaskIds |-> 0]
  /\ done_log = <<>>
  /\ pub_log = <<>>
  /\ drain_log = <<>>

\* ---- the public operations ------------------------------------------------
\* waiting_queue_cond_.notify_one(): one of the workers blocked in wait, if
\* there is one, is made runnable; it has to reacquire the mutex.
notify_one ==
  IF \E w \in Workers : pc[w] = "L160_blocked"
    THEN \E w \in Workers :
           /\ pc[w] = "L160_blocked"
           /\ pc' = [pc EXCEPT ![w] = "L160_woken"]
    ELSE pc' = pc

\* Drop with the capacity test off by one (> for >=).
Drop_gt(t) ==
  /\ waiting_queue_mtx_ = Free
  /\ IF Len(waiting_queue_) > kMaxQueueSize
       THEN /\ drop_log' = Append(drop_log, [task |-> t, ret |-> FALSE])
            /\ UNCHANGED <<waiting_queue_, pc>>
       ELSE /\ waiting_queue_' = Append(waiting_queue_, t)
            /\ notify_one
            /\ drop_log' = Append(drop_log, [task |-> t, ret |-> TRUE])

\* Drop without the notify_one of line 123.
Drop_nonotify(t) ==
  /\ waiting_queue_mtx_ = Free
  /\ IF Len(waiting_queue_) >= kMaxQueueSize
       THEN /\ drop_log' = Append(drop_log, [task |-> t, ret |-> FALSE])
            /\ UNCHANGED <<waiting_queue_, pc>>
       ELSE /\ waiting_queue_' = Append(waiting_queue_, t)
            /\ pc' = pc
            /\ drop_log' = Append(drop_log, [task |-> t, ret |-> TRUE])

\* ThreadPool::Drop(task), called by any thread.
Drop(t) ==
  /\ waiting_queue_mtx_ = Free
  /\ IF Len(waiting_queue_) >= kMaxQueueSize
       THEN /\ drop_log' = Append(drop_log, [task |-> t, ret |-> FALSE])
            /\ UNCHANGED <<waiting_queue_, pc>>
       ELSE /\ waiting_queue_' = Append(waiting_queue_, t)
            /\ notify_one
            /\ drop_log' = Append(drop_log, [task |-> t, ret |-> TRUE])

\* The ordinary tasks handed to Drop so far.
NumSubmitted == Cardinality({i \in 1..Len(drop_log) : drop_log[i].task.kind = "task"})

\* A user of the pool (its owner, another thread, or a running task as in
\* examples/timeout.cpp) drops a new ordinary task.
Submit ==
  /\ owner_pc # "destroyed"
  /\ NumSubmitted < MaxTasks
  /\ \E r \in {"null", "val"} : Drop(Task(Len(drop_log) + 1, r))
  /\ UNCHANGED <<kNumThreads, kMaxQueueSize, results_queue_, threads_idle_,
                 exit_mark_, mtxs, locals, owner, deq_log, exec_count, done_log,
                 pub_log, drain_log>>

\* GrabAllResults copying the buffer without popping it.
GrabLoop_nopop(results, queue) == [results |-> results \o queue, queue |-> queue]

\* The loop of GrabAllResults: front/pop into the vector until empty.
RECURSIVE GrabLoop(_, _)
GrabLoop(results, queue) ==
  IF queue = <<>>
    THEN [results |-> results, queue |-> queue]
    ELSE GrabLoop(Append(results, Head(queue)), Tail(queue))

\* ThreadPool::GrabAllResults().
GrabAllResults ==
  /\ owner_pc # "destroyed"
  /\ Len(drain_log) < MaxGrabs
  /\ results_queue_mtx_ = Free
  /\ LET g == GrabLoop(<<>>, results_queue_) IN
       /\ results_queue_' = g.queue
       /\ drain_log' = Append(drain_log, [res |-> g.results, at |-> Len(pub_log)])
  /\ UNCHANGED <<kNumThreads, kMaxQueueSize, waiting_queue_, threads_idle_,
                 exit_mark_, mtxs, pc, locals, owner, drop_log, deq_log,
                 exec_count, done_log, pub_log>>

\* ThreadPool::QueryIdleThreadsCount(): count_if over the idle map.
QueryIdleThreadsCount == Cardinality({w \in DOMAIN threads_idle_ : threads_idle_[w]})

\* ThreadPool::QueryWaitingQueueCount().
QueryWaitingQueueCount == Len(waiting_queue_)

\* ThreadPool::QueryResultsCount().
QueryResultsCount == Len(results_queue_)

\* ---- the destructor -------------------------------------------------------
\* The owning thread enters ~ThreadPool: i = 0 and the loop test.
DtorEnter ==
  /\ owner_pc = "alive"
  /\ dtor_i' = 0
  /\ owner_pc' = IF 0 < kNumThreads THEN "L109" ELSE "destroyed"
  /\ UNCHANGED <<pool, mtxs, pc, locals, logs>>

\* Line 109: Drop(std::make_shared<QuitTask>(exit_mark_)), result discarded.
DtorDrop ==
  /\ owner_pc = "L109"
  /\ Drop(QuitTask(Len(drop_log) + 1))
  /\ owner_pc' = "L110"
  /\ UNCHANGED <<kNumThreads, kMaxQueueSize, results_queue_, threads_idle_,
                 exit_mark_, mtxs, locals, dtor_i, deq_log, exec_count, done_log,
                 pub_log, drain_log>>

\* The busy-wait comparing with i instead of i + 1.
DtorAcked_early(mark, i) == mark = i

\* The destructor without the busy-wait of line 110: it submits the next
\* stop task at once.
DtorAcked_nowait(mark, i) == mark = mark /\ i = i

\* The busy-wait with the comparison the wrong way round: done while the
\* counter is at most i + 1.
DtorAcked_le(mark, i) == mark <= i + 1

\* The test of the busy-wait of line 110.
DtorAcked(mark, i) == mark = i + 1

\* Lines 110-113 and the loop's ++i and test: once the counter is i + 1 the
\* loop goes on; until then the thread yields and reads again.
DtorWait ==
  /\ owner_pc = "L110"
  /\ DtorAcked(exit_mark_, dtor_i)
  /\ dtor_i' = dtor_i + 1
  /\ owner_pc' = IF dtor_i + 1 < kNumThreads THEN "L109" ELSE "destroyed"
  /\ UNCHANGED <<pool, mtxs, pc, locals, logs>>

Dtor == DtorEnter \/ DtorDrop \/ DtorWait

\* ---- the worker cycle -----------------------------------------------------
\* ITask::Execute as the pool sees it: QuitTask returns exit_mark_, an
\* ordinary task returns nullptr or a fresh allocation.
Execute(t) ==
  IF t.kind = "quit" THEN ExitMarkPtr
  ELSE IF t.ret = "val" THEN t.id
  ELSE NullPtr

\* The branch without the nullptr test of line 173.
AfterExecute_nonullcheck(r) == IF r = ExitMarkPtr THEN "L175" ELSE "L178"

\* The branch without the sentinel test of line 174.
AfterExecute_noexitcheck(r) == IF r # NullPtr THEN "L178" ELSE "L183"

\* Lines 173-180: where the worker goes with the result of Execute.
AfterExecute(r) ==
  IF r # NullPtr
    THEN IF r = ExitMarkPtr THEN "L175" ELSE "L178"
    ELSE "L183"

\* Line 158, and the reacquisition inside wait after a wake-up.
LockQueue(w) ==
  /\ w \in Workers
  /\ pc[w] \in {"L158", "L160_woken"}
  /\ waiting_queue_mtx_ = Free
  /\ waiting_queue_mtx_' = w
  /\ pc' = [pc EXCEPT ![w] = "L160"]
  /\ UNCHANGED <<pool, results_queue_mtx_, threads_idle_mtx_, locals, owner, logs>>

\* Line 160: wait(lock, pred) tests the predicate with the mutex held and
\* blocks, releasing the mutex, while the queue is empty.
WaitPred(w) ==
  /\ w \in Workers
  /\ pc[w] = "L160"
  /\ IF waiting_queue_ # <<>>
       THEN /\ pc' = [pc EXCEPT ![w] = "L163"]
            /\ UNCHANGED waiting_queue_mtx_
       ELSE /\ pc' = [pc EXCEPT ![w] = "L160_blocked"]
            /\ waiting_queue_mtx_' = Free
  /\ UNCHANGED <<pool, results_queue_mtx_, threads_idle_mtx_, locals, owner, logs>>

\* A condition variable may wake a waiter without a notification.
SpuriousWakeup(w) ==
  /\ w \in Workers
  /\ pc[w] = "L160_blocked"
  /\ owner_pc # "destroyed"
  /\ pc' = [pc EXCEPT ![w] = "L160_woken"]
  /\ UNCHANGED <<pool, mtxs, locals, owner, logs>>

\* Line 163: the idle-map mutex is taken with the queue mutex held.
LockIdleBusy(w) ==
  /\ w \in Workers
  /\ pc[w] = "L163"
  /\ threads_idle_mtx_ = Free
  /\ threads_idle_mtx_' = w
  /\ pc' = [pc EXCEPT ![w] = "L164"]
  /\ UNCHANGED <<pool, waiting_queue_mtx_, results_queue_mtx_, locals, owner, logs>>

\* MarkBusy without the unlock of line 165.
MarkBusy_nounlock(w) ==
  /\ w \in Workers
  /\ pc[w] = "L164"
  /\ threads_idle_' = MapSet(threads_idle_, w, FALSE)
  /\ threads_idle_mtx_' = threads_idle_mtx_
  /\ pc' = [pc EXCEPT ![w] = "L167"]
  /\ UNCHANGED <<kNumThreads, kMaxQueueSize, waiting_queue_, results_queue_,
                 exit_mark_, waiting_queue_mtx_, results_queue_mtx_, locals,
                 owner, logs>>

\* MarkBusy without the assignment of line 164.
MarkBusy_noflag(w) ==
  /\ w \in Workers
  /\ pc[w] = "L164"
  /\ threads_idle_' = threads_idle_
  /\ threads_idle_mtx_' = Free
  /\ pc' = [pc EXCEPT ![w] = "L167"]
  /\ UNCHANGED <<kNumThreads, kMaxQueueSize, waiting_queue_, results_queue_,
                 exit_mark_, waiting_queue_mtx_, results_queue_mtx_, locals,
                 owner, logs>>

\* Lines 164-165: mark busy, unlock the idle map.
MarkBusy(w) ==
  /\ w \in Workers
  /\ pc[w] = "L164"
  /\ threads_idle_' = MapSet(threads_idle_, w, FALSE)
  /\ threads_idle_mtx_' = Free
  /\ pc' = [pc EXCEPT ![w] = "L167"]
  /\ UNCHANGED <<kNumThreads, kMaxQueueSize, waiting_queue_, results_queue_,
                 exit_mark_, waiting_queue_mtx_, results_queue_mtx_, locals,
                 owner, logs>>

\* TakeTask without the pop of line 168.
TakeTask_nopop(w) ==
  /\ w \in Workers
  /\ pc[w] = "L167"
  /\ task' = [task EXCEPT ![w] = Head(waiting_queue_)]
  /\ waiting_queue_' = waiting_queue_
  /\ waiting_queue_mtx_' = Free
  /\ deq_log' = Append(deq_log, Head(waiting_queue_))
  /\ pc' = [pc EXCEPT ![w] = "L171"]
  /\ UNCHANGED <<kNumThreads, kMaxQueueSize, results_queue_, threads_idle_,
                 exit_mark_, results_queue_mtx_, threads_idle_mtx_, result, reg,
                 owner, drop_log, exec_count, done_log, pub_log,
                 drain_log>>

\* TakeTask taking the newest task (a stack instead of a queue).
TakeTask_back(w) ==
  /\ w \in Workers
  /\ pc[w] = "L167"
  /\ task' = [task EXCEPT ![w] = waiting_queue_[Len(waiting_queue_)]]
  /\ waiting_queue_' = SubSeq(waiting_queue_, 1, Len(waiting_queue_) - 1)
  /\ waiting_queue_mtx_' = Free
  /\ deq_log' = Append(deq_log, waiting_queue_[Len(waiting_queue_)])
  /\ pc' = [pc EXCEPT ![w] = "L171"]
  /\ UNCHANGED <<kNumThreads, kMaxQueueSize, results_queue_, threads_idle_,
                 exit_mark_, results_queue_mtx_, threads_idle_mtx_, result, reg,
                 owner, drop_log, exec_count, done_log, pub_log,
                 drain_log>>

\* Lines 167-169: take the front task, pop it, unlock the queue.
TakeTask(w) ==
  /\ w \in Workers
  /\ pc[w] = "L167"
  /\ task' = [task EXCEPT ![w] = Head(waiting_queue_)]
  /\ waiting_queue_' = Tail(waiting_queue_)
  /\ waiting_queue_mtx_' = Free
  /\ deq_log' = Append(deq_log, Head(waiting_queue_))
  /\ pc' = [pc EXCEPT ![w] = "L171"]
  /\ UNCHANGED <<kNumThreads, kMaxQueueSize, results_queue_, threads_idle_,
                 exit_mark_, results_queue_mtx_, threads_idle_mtx_, result, reg,
                 owner, drop_log, exec_count, done_log, pub_log,
                 drain_log>>

\* RunTask flagging the worker idle as soon as Execute has returned, before
\* the result is pushed.
RunTask_idlefirst(w) ==
  /\ w \in Workers
  /\ pc[w] = "L171"
  /\ result' = [result EXCEPT ![w] = Execute(task[w])]
  /\ exec_count' = [exec_count EXCEPT ![task[w].id] = @ + 1]
  /\ done_log' = IF Execute(task[w]) \in {NullPtr, ExitMarkPtr}
                   THEN done_log
                   ELSE Append(done_log, Execute(task[w]))
  /\ pc' = [pc EXCEPT ![w] = AfterExecute(Execute(task[w]))]
  /\ threads_idle_' = MapSet(threads_idle_, w, TRUE)
  /\ UNCHANGED <<kNumThreads, kMaxQueueSize, waiting_queue_, results_queue_,
                 exit_mark_, mtxs, task, reg, owner, drop_log, deq_log,
                 pub_log, drain_log>>

\* Lines 171-174: run the task and branch on its result.
RunTask(w) ==
  /\ w \in Workers
  /\ pc[w] = "L171"
  /\ result' = [result EXCEPT ![w] = Execute(task[w])]
  /\ exec_count' = [exec_count EXCEPT ![task[w].id] = @ + 1]
  /\ done_log' = IF Execute(task[w]) \in {NullPtr, ExitMarkPtr}
                   THEN done_log
                   ELSE Append(done_log, Execute(task[w]))
  /\ pc' = [pc EXCEPT ![w] = AfterExecute(Execute(task[w]))]
  /\ UNCHANGED <<pool, mtxs, task, reg, owner, drop_log, deq_log, pub_log, drain_log>>

\* Line 175, first half of ++(*exit_mark_): the unsynchronised read.
AckRead(w) ==
  /\ w \in Workers
  /\ pc[w] = "L175"
  /\ reg' = [reg EXCEPT ![w] = exit_mark_]
  /\ pc' = [pc EXCEPT ![w] = "L175_write"]
  /\ UNCHANGED <<pool, mtxs, task, result, owner, logs>>

\* Lines 175-176, second half: the write of the incremented value, and the
\* break that ends Cycle (the locals are destroyed; no lock is owned).  The
\* counter is a uint32_t that never exceeds kNumThreads, so it cannot wrap.
AckWrite(w) ==
  /\ w \in Workers
  /\ pc[w] = "L175_write"
  /\ exit_mark_' = reg[w] + 1
  /\ pc' = [pc EXCEPT ![w] = "stopped"]
  /\ task' = [task EXCEPT ![w] = NoTask]
  /\ result' = [result EXCEPT ![w] = NullPtr]
  /\ reg' = [reg EXCEPT ![w] = 0]
  /\ UNCHANGED <<kNumThreads, kMaxQueueSize, waiting_queue_, results_queue_,
                 threads_idle_, mtxs, owner, logs>>

\* Line 178: lock the result buffer.
LockResults(w) ==
  /\ w \in Workers
  /\ pc[w] = "L178"
  /\ results_queue_mtx_ = Free
  /\ results_queue_mtx_' = w
  /\ pc' = [pc EXCEPT ![w] = "L179"]
  /\ UNCHANGED <<pool, waiting_queue_mtx_, threads_idle_mtx_, locals, owner, logs>>

\* Publish pushing at the front of the result buffer.
Publish_front(w) ==
  /\ w \in Workers
  /\ pc[w] = "L179"
  /\ results_queue_' = <<result[w]>> \o results_queue_
  /\ pub_log' = Append(pub_log, result[w])
  /\ results_queue_mtx_' = Free
  /\ pc' = [pc EXCEPT ![w] = "L183"]
  /\ UNCHANGED <<kNumThreads, kMaxQueueSize, waiting_queue_, threads_idle_,
                 exit_mark_, waiting_queue_mtx_, threads_idle_mtx_, locals,
                 owner, drop_log, deq_log, exec_count, done_log,
                 drain_log>>

\* Lines 179-180: push the result; the guard's scope ends.
Publish(w) ==
  /\ w \in Workers
  /\ pc[w] = "L179"
  /\ results_queue_' = Append(results_queue_, result[w])
  /\ pub_log' = Append(pub_log, result[w])
  /\ results_queue_mtx_' = Free
  /\ pc' = [pc EXCEPT ![w] = "L183"]
  /\ UNCHANGED <<kNumThreads, kMaxQueueSize, waiting_queue_, threads_idle_,
                 exit_mark_, waiting_queue_mtx_, threads_idle_mtx_, locals,
                 owner, drop_log, deq_log, exec_count, done_log,
                 drain_log>>

\* Line 183: lock the idle map again.
LockIdleDone(w) ==
  /\ w \in Workers
  /\ pc[w] = "L183"
  /\ threads_idle_mtx_ = Free
  /\ threads_idle_mtx_' = w
  /\ pc' = [pc EXCEPT ![w] = "L184"]
  /\ UNCHANGED <<pool, waiting_queue_mtx_, results_queue_mtx_, locals, owner, logs>>

\* MarkIdle with the idle-map lock outliving the iteration: it is still
\* owned when the worker goes back to line 158.
MarkIdle_nounlock(w) ==
  /\ w \in Workers
  /\ pc[w] = "L184"
  /\ threads_idle_' = MapSet(threads_idle_, w, TRUE)
  /\ threads_idle_mtx_' = threads_idle_mtx_
  /\ task' = [task EXCEPT ![w] = NoTask]
  /\ result' = [result EXCEPT ![w] = NullPtr]
  /\ pc' = [pc EXCEPT ![w] = "L158"]
  /\ UNCHANGED <<kNumThreads, kMaxQueueSize, waiting_queue_, results_queue_,
                 exit_mark_, waiting_queue_mtx_, results_queue_mtx_, reg,
                 owner, logs>>

\* Lines 184-185: mark idle; the iteration's locals go out of scope, which
\* unlocks the idle map, and the loop starts over.
MarkIdle(w) ==
  /\ w \in Workers
  /\ pc[w] = "L184"
  /\ threads_idle_' = MapSet(threads_idle_, w, TRUE)
  /\ threads_idle_mtx_' = Free
  /\ task' = [task EXCEPT ![w] = NoTask]
  /\ result' = [result EXCEPT ![w] = NullPtr]
  /\ pc' = [pc EXCEPT ![w] = "L158"]
  /\ UNCHANGED <<kNumThreads, kMaxQueueSize, waiting_queue_, results_queue_,
                 exit_mark_, waiting_queue_mtx_, results_queue_mtx_, reg,
                 owner, logs>>

\* The part of Cycle that serves tasks: every line but the stop branch.
CycleWork(w) ==
  \/ LockQueue(w)
  \/ WaitPred(w)
  \/ LockIdleBusy(w)
  \/ MarkBusy(w)
  \/ TakeTask(w)
  \/ RunTask(w)
  \/ LockResults(w)
  \/ Publish(w)
  \/ LockIdleDone(w)
  \/ MarkIdle(w)

\* Lines 174-177 of Cycle: the stop branch.
CycleStop(w) == AckRead(w) \/ AckWrite(w)

\* ThreadPool::Cycle of worker w, one step.
Cycle(w) == CycleWork(w) \/ CycleStop(w)

\* ---- specifications -------------------------------------------------------
Next ==
  \/ Submit
  \/ GrabAllResults
  \/ Dtor
  \/ \E w \in ThreadIds : Cycle(w)
  \/ \E w \in ThreadIds : SpuriousWakeup(w)

Spec == Init /\ [][Next]_vars

\* Fair scheduling: every worker thread and the destructing thread keep
\* running, and a mutex that is free again and again is eventually obtained.
\* Nothing obliges users to submit or drain, a condition variable to wake
\* spuriously, or the owner to destroy the pool.
FairSpec ==
  /\ Spec
  /\ \A w \in ThreadIds : SF_vars(Cycle(w))
  /\ SF_vars(DtorDrop \/ DtorWait)

\* A pool that is used and never destroyed.
NextAlive ==
  \/ Submit
  \/ GrabAllResults
  \/ \E w \in ThreadIds : CycleWork(w)
  \/ \E w \in ThreadIds : SpuriousWakeup(w)

\* The same pool under fair scheduling of its workers: a worker that can
\* take a step without pause eventually takes one.
AliveSpec ==
  /\ Init
  /\ [][NextAlive]_vars
  /\ \A w \in ThreadIds : WF_vars(CycleWork(w))

\* ---- helpers of the properties -------------------------------------------
\* The tasks of a log, in order.
RECURSIVE TasksOf(_)
TasksOf(log) == IF log = <<>> THEN <<>> ELSE <<Head(log).task>> \o TasksOf(Tail(log))

\* The calls of Drop that returned true, in order.
AcceptedLog == SelectSeq(drop_log, LAMBDA e : e.ret)

\* Everything GrabAllResults has returned, concatenated in call order.
RECURSIVE Drained(_)
Drained(log) == IF log = <<>> THEN <<>> ELSE Head(log).res \o Drained(Tail(log))

NoDuplicates(seq) == \A i, j \in 1..Len(seq) : i # j => seq[i] # seq[j]

IsDropStep == Len(drop_log') = Len(drop_log) + 1

LastDrop == drop_log'[Len(drop_log')]

\* ---- C1 ------------------------------------------------------------------
\* What a step that is a call of Drop (the users' or the destructor's) does.
C1_DropContract ==
  IsDropStep =>
    IF Len(waiting_queue_) >= kMaxQueueSize
      THEN /\ LastDrop.ret = FALSE
           /\ waiting_queue_' = waiting_queue_
           /\ results_queue_' = results_queue_
           /\ threads_idle_' = threads_idle_
      ELSE /\ LastDrop.ret = TRUE
           /\ waiting_queue_' = Append(waiting_queue_, LastDrop.task)

\* C1: the task queue never holds more than max_queue_size tasks, teardown
\* included; a Drop called with the queue at (or above) capacity returns
\* false and leaves the queue, the result buffer and the idle flags as they
\* were; a Drop called below capacity returns true and appends the task at
\* the tail.
C1_BoundedQueue ==
  /\ [](Len(waiting_queue_) <= kMaxQueueSize)
  /\ [][C1_DropContract]_vars

\* A full queue during teardown, after one Drop was accepted and one refused.
C1_Witness ==
  /\ kMaxQueueSize >= 1
  /\ Len(waiting_queue_) = kMaxQueueSize
  /\ owner_pc = "L110"
  /\ \E i, j \in 1..Len(drop_log) : drop_log[i].ret /\ ~drop_log[j].ret

\* ---- C2 ------------------------------------------------------------------
\* C2: under fair scheduling the destructor, once entered, eventually
\* returns, with num_threads stop acknowledgements counted, whatever the
\* queue holds (from nothing up to max_queue_size ordinary tasks) when each
\* stop task is handed to Drop.  Stated for the pools whose queue can hold a
\* task at all; C10 covers a capacity of 0.
C2_DestroyTerminates ==
  (owner_pc # "alive" /\ kMaxQueueSize >= 1)
     ~> (owner_pc = "destroyed" /\ exit_mark_ = kNumThreads)

\* ---- C3 ------------------------------------------------------------------
\* C3: when the destructor has returned, the stop counter is exactly
\* num_threads and every worker has left Cycle: none waits on the queue,
\* holds a task, executes or publishes, and none owns a mutex.
C3_AllStoppedAtReturn ==
  owner_pc = "destroyed" =>
    /\ exit_mark_ = kNumThreads
    /\ \A w \in Workers : pc[w] = "stopped" /\ task[w] = NoTask
    /\ waiting_queue_mtx_ = Free
    /\ results_queue_mtx_ = Free
    /\ threads_idle_mtx_ = Free

\* A pool of at least two workers destroyed after ordinary work was done.
C3_Witness ==
  /\ owner_pc = "destroyed"
  /\ kNumThreads >= 2
  /\ \E i \in 1..Len(deq_log) : deq_log[i].kind = "task" /\ exec_count[deq_log[i].id] = 1

\* ---- C5 ------------------------------------------------------------------
\* The tasks held by workers that have not called Execute on them yet.
HeldUnexecuted == {task[w] : w \in {v \in Workers : pc[v] = "L171"}}

\* C5: every accepted task is popped at most once, hence by one worker, and
\* executed at most once: a popped task has been executed once, or not yet
\* and then exactly one worker holds it before its Execute call; a task that
\* was never popped, in particular one still in the queue, has not been
\* executed; and only accepted tasks are popped.
C5_ExactlyOnce ==
  /\ NoDuplicates(deq_log)
  /\ \A id \in TaskIds : exec_count[id] <= 1
  /\ \A i \in 1..Len(deq_log) :
        /\ \E j \in 1..Len(AcceptedLog) : AcceptedLog[j].task = deq_log[i]
        /\ IF deq_log[i] \in HeldUnexecuted
             THEN /\ exec_count[deq_log[i].id] = 0
                  /\ Cardinality({w \in Workers : pc[w] = "L171" /\ task[w] = deq_log[i]}) = 1
             ELSE exec_count[deq_log[i].id] = 1
  /\ \A id \in TaskIds :
        (\A i \in 1..Len(deq_log) : deq_log[i].id # id) => exec_count[id] = 0
  /\ \A q \in 1..Len(waiting_queue_) :
        /\ exec_count[waiting_queue_[q].id] = 0
        /\ \A i \in 1..Len(deq_log) : deq_log[i] # waiting_queue_[q]

\* Two workers hold different tasks, one executed and one not yet, while a
\* third task is still queued.
C5_Witness ==
  /\ \E v, w \in Workers :
        /\ pc[v] = "L171"
        /\ pc[w] \in {"L178", "L183"}
        /\ task[w].kind = "task"
  /\ waiting_queue_ # <<>>

\* ---- C6 ------------------------------------------------------------------
\* C6: all drains so far, concatenated, followed by the buffer's content are
\* the history of published results, with no duplicate; a drain with no
\* publication since the previous drain returns the empty sequence.
C6_DrainsPartitionHistory ==
  /\ Drained(drain_log) \o results_queue_ = pub_log
  /\ NoDuplicates(pub_log)
  /\ \A i \in 2..Len(drain_log) :
        drain_log[i].at = drain_log[i - 1].at => drain_log[i].res = <<>>

\* A non-empty drain, then a drain with nothing published in between, with
\* a later result in the buffer.
C6_Witness ==
  /\ Len(drain_log) >= 2
  /\ drain_log[1].res # <<>>
  /\ drain_log[2].at = drain_log[1].at
  /\ results_queue_ # <<>>

\* ---- C7 ------------------------------------------------------------------
\* C7: tasks leave the queue in the order in which their Drop calls
\* succeeded, stop tasks included: the tasks popped so far followed by the
\* queue's content are the accepted tasks in acceptance order.
C7_FifoDequeue == deq_log \o waiting_queue_ = TasksOf(AcceptedLog)

\* Two workers hold tasks they popped one after the other, the later one a
\* stop task, with a task still queued.
C7_Witness ==
  /\ \E v, w \in Workers :
        /\ v # w
        /\ task[v].kind = "task"
        /\ task[w].kind = "quit"
        /\ task[v].id < task[w].id
  /\ waiting_queue_ # <<>>

\* ---- C8 ------------------------------------------------------------------
\* C8: QueryIdleThreadsCount is within [0, num_threads], the idle map has
\* exactly one boolean entry per spawned worker, and the count is
\* num_threads as long as no task has been handed to the pool.
C8_IdleCount ==
  /\ QueryIdleThreadsCount \in 0..kNumThreads
  /\ DOMAIN threads_idle_ = Workers
  /\ \A w \in Workers : threads_idle_[w] \in BOOLEAN
  /\ drop_log = <<>> => QueryIdleThreadsCount = kNumThreads

\* One of two workers is busy with a task while the other, having completed
\* one, is idle again.
C8_Witness ==
  /\ kNumThreads = 2
  /\ QueryIdleThreadsCount = 1
  /\ \E w \in Workers : pc[w] = "L171"
  /\ \E id \in TaskIds : exec_count[id] = 1

\* ---- C9 ------------------------------------------------------------------
\* A step of a worker that holds a task whose Execute returns nullptr leaves
\* the result buffer alone.
C9_NullTaskStep ==
  \A w \in Workers :
    (/\ task[w].kind = "task"
     /\ task[w].ret = "null"
     /\ pc'[w] # pc[w])
    => /\ results_queue_' = results_queue_
       /\ QueryResultsCount' = QueryResultsCount
       /\ pub_log' = pub_log

\* Every result of seq was returned by a task whose Execute returns a value.
C9_OnlyValueResults(seq) ==
  \A i \in 1..Len(seq) :
     /\ seq[i] \in 1..Len(drop_log)
     /\ drop_log[seq[i]].task.ret = "val"

\* C9: no step of a worker that is completing a task whose Execute returns
\* nullptr changes the result buffer, so QueryResultsCount is the same before
\* and after the completion; and no result ever published, buffered or
\* drained belongs to such a task.
C9_NullLeavesBuffer ==
  /\ [][C9_NullTaskStep]_vars
  /\ [](/\ C9_OnlyValueResults(pub_log)
        /\ C9_OnlyValueResults(results_queue_)
        /\ C9_OnlyValueResults(Drained(drain_log)))

\* A task returning nullptr has been executed and its worker is idle again,
\* with another task's result in the buffer.
C9_Witness ==
  /\ \E id \in TaskIds :
        /\ exec_count[id] = 1
        /\ drop_log[id].task.ret = "null"
        /\ \A w \in Workers : task[w].id # id
  /\ QueryResultsCount = 1

\* ---- C4 ------------------------------------------------------------------
AcceptedTask(id) ==
  /\ kNumThreads >= 1
  /\ id <= Len(drop_log)
  /\ drop_log[id].ret
  /\ drop_log[id].task.kind = "task"

ExecutedTask(id) == exec_count[id] >= 1

PublishedTask(id) == \E i \in 1..Len(pub_log) : pub_log[i] = id

\* A task is served once a worker has executed it and, if its Execute
\* returns a value, has pushed that value to the result buffer.
ServedTask(id) ==
  /\ ExecutedTask(id)
  /\ drop_log[id].task.ret = "val" => PublishedTask(id)

\* C4: in a pool of at least one worker, while it is not being destroyed and
\* under fair scheduling, every ordinary task whose Drop returned true is
\* eventually executed by a worker, and eventually has an entry in the
\* history of published results if its Execute returns a value; a task
\* whose Execute returns nullptr never has one.
C4_AcceptedIsServed ==
  /\ \A id \in TaskIds :
        AcceptedTask(id) ~> (ServedTask(id) \/ owner_pc # "alive")
  /\ [](\A id \in TaskIds :
          (AcceptedTask(id) /\ drop_log[id].task.ret = "null") => ~PublishedTask(id))

\* In a live pool an accepted task's result has been published, and another
\* accepted task, returning nullptr, has been executed.
C4_Witness ==
  /\ owner_pc = "alive"
  /\ \E id \in TaskIds : AcceptedTask(id) /\ PublishedTask(id)
  /\ \E id \in TaskIds :
        AcceptedTask(id) /\ drop_log[id].task.ret = "null" /\ ExecutedTask(id)

\* ---- C10 -----------------------------------------------------------------
\* C10: a pool to which no task is ever handed and whose destructor has been
\* entered is eventually destroyed, for every num_threads and max_queue_size
\* the constructor accepts, and no ordinary task is executed on the way.
C10_IdleDestroyTerminates ==
  /\ (owner_pc # "alive" /\ NumSubmitted = 0)
        ~> (owner_pc = "destroyed" \/ NumSubmitted > 0)
  /\ [](NumSubmitted = 0 =>
          \A id \in TaskIds :
             exec_count[id] > 0 => drop_log[id].task.kind = "quit")

\* ---- C11 -----------------------------------------------------------------
\* The positions in drop_log of the stop tasks the queue accepted.
AcceptedStops ==
  {q \in 1..Len(drop_log) : drop_log[q].ret /\ drop_log[q].task.kind = "quit"}

\* An ordinary task the queue accepted before it accepted stop task q: by
\* FIFO order it is ahead of q for as long as it is in the queue.
QueuedAheadOf(id, q) == AcceptedTask(id) /\ id < q

\* Once the destructor has returned, every ordinary task that was accepted
\* before some accepted stop task has been executed: the queue is FIFO, the
\* worker that pops a task runs it before it can pop a stop task, and the
\* destructor returns only after every worker has popped one.
QueuedBeforeStopIsExecuted ==
  owner_pc = "destroyed" =>
    \A q \in AcceptedStops : \A id \in TaskIds :
       QueuedAheadOf(id, q) => ExecutedTask(id)

\* The destructor has returned with an ordinary task left in the queue: one
\* that was accepted after the last stop task.
LeftBehindAfterLastStop ==
  /\ owner_pc = "destroyed"
  /\ \E id \in TaskIds :
        /\ AcceptedTask(id)
        /\ ~ExecutedTask(id)
        /\ \A q \in AcceptedStops : q < id

\* ---- C12 -----------------------------------------------------------------
\* The pool's mutexes that thread w owns.
HeldBy(w) ==
  {m \in {"waiting_queue_mtx_", "results_queue_mtx_", "threads_idle_mtx_"} :
      CASE m = "waiting_queue_mtx_" -> waiting_queue_mtx_ = w
        [] m = "results_queue_mtx_" -> results_queue_mtx_ = w
        [] m = "threads_idle_mtx_" -> threads_idle_mtx_ = w}

\* A step that is a whole public operation of the owning thread.
IsPublicOpStep ==
  \/ IsDropStep
  \/ Len(drain_log') = Len(drain_log) + 1

\* A public operation takes the one mutex of the structure it works on: it
\* runs when no worker owns that mutex, whoever owns the other two, and it
\* has released it when it returns.
C12_OnePerPublicOp ==
  IsPublicOpStep =>
    /\ mtxs' = mtxs
    /\ IsDropStep => waiting_queue_mtx_ = Free
    /\ ~IsDropStep => results_queue_mtx_ = Free

\* C12 as stated: a worker never owns more than one of the three mutexes,
\* and the owning thread takes at most one of them per public operation.
C12_OneLockAtATime ==
  /\ [](\A w \in Workers : Cardinality(HeldBy(w)) <= 1)
  /\ [][C12_OnePerPublicOp]_vars

\* C12, amended: a worker owns at most two of the three mutexes at a time,
\* and two only at lines 163-165, where it owns the idle-map mutex inside
\* the task-queue mutex; the result-buffer mutex is never owned together
\* with another one; the owning thread takes at most one mutex per public
\* operation.
C12_NestsOnlyIdleInQueue ==
  /\ [](\A w \in Workers :
          \/ Cardinality(HeldBy(w)) <= 1
          \/ /\ HeldBy(w) = {"waiting_queue_mtx_", "threads_idle_mtx_"}
             /\ pc[w] = "L164")
  /\ [][C12_OnePerPublicOp]_vars

\* One worker owns the task-queue and the idle-map mutex together while
\* another owns the result-buffer mutex alone.
C12_Witness ==
  \E w, v \in Workers :
     /\ HeldBy(w) = {"waiting_queue_mtx_", "threads_idle_mtx_"}
     /\ HeldBy(v) = {"results_queue_mtx_"}

\* ---- C13 -----------------------------------------------------------------
\* Task t has been executed and, if its Execute returned a value, the value
\* has been pushed to the result buffer.
FinishedTask(t) ==
  /\ exec_count[t.id] >= 1
  /\ t.ret = "val" => PublishedTask(t.id)

\* The tasks that left the queue and are not finished.
InFlight == {t \in {deq_log[i] : i \in 1..Len(deq_log)} : ~FinishedTask(t)}

BusyWorkers == {w \in Workers : ~threads_idle_[w]}

\* The step that pops a task is taken by a worker already flagged busy, and
\* a step that flags a worker idle is taken with its task finished.
C13_FlagOrder ==
  /\ Len(deq_log') = Len(deq_log) + 1 =>
        \E w \in Workers :
           /\ task'[w] = deq_log'[Len(deq_log')]
           /\ task[w] = NoTask
           /\ ~threads_idle_[w]
  /\ \A w \in Workers :
        (~threads_idle_[w] /\ threads_idle_'[w]) =>
           /\ task[w] # NoTask
           /\ FinishedTask(task[w])

\* C13: a worker is flagged busy before the task it claims leaves the queue
\* and flagged idle only after the task is finished; every task that left
\* the queue and is not yet executed and published is held by a worker
\* whose idle flag is false, and the busy-flagged workers are at least as
\* many as those tasks.
C13_BusyCoversInFlight ==
  /\ [](/\ \A t \in InFlight :
              \E w \in Workers : task[w] = t /\ ~threads_idle_[w]
        /\ Cardinality(BusyWorkers) >= Cardinality(InFlight))
  /\ [][C13_FlagOrder]_vars

\* Two tasks in flight on two busy workers: one not yet executed, the other
\* executed with its value not yet pushed.
C13_Witness ==
  /\ Cardinality(InFlight) = 2
  /\ Cardinality(BusyWorkers) = 2
  /\ \E w, v \in Workers :
        /\ pc[w] = "L171"
        /\ pc[v] = "L178"

\* ---- C14 -----------------------------------------------------------------
\* The workers that have left Cycle through the break of line 176.
StoppedWorkers == {w \in Workers : pc[w] = "stopped"}

\* The workers whose Execute returned the sentinel: in the stop branch, or
\* out of the loop.
LeavingWorkers == {w \in Workers : pc[w] \in {"L175", "L175_write", "stopped"}}

\* The stop tasks some worker has executed.
ExecutedStops == {q \in AcceptedStops : exec_count[q] >= 1}

\* C14: with ++(*exit_mark_) taken as an unsynchronised read followed by a
\* write, the counter always equals the number of workers that have left
\* their loop; every stop task is executed at most once, and the executed
\* stop tasks are exactly as many as the workers they sent to the stop
\* branch.
C14_NoLostAck ==
  /\ exit_mark_ = Cardinality(StoppedWorkers)
  /\ \A q \in AcceptedStops : exec_count[q] <= 1
  /\ Cardinality(ExecutedStops) = Cardinality(LeavingWorkers)

\* A second worker has read the counter at 1 and not yet written it back,
\* after the first worker stopped.
C14_Witness ==
  /\ Cardinality(StoppedWorkers) = 1
  /\ \E w \in Workers : pc[w] = "L175_write" /\ reg[w] = 1

\* ---- C15 -----------------------------------------------------------------
\* The stop tasks that are in the queue or held by a worker still in Cycle.
PendingStops ==
  {q \in AcceptedStops :
      \/ \E i \in 1..Len(waiting_queue_) : waiting_queue_[i].id = q
      \/ \E w \in Workers : task[w].id = q /\ pc[w] # "stopped"}

\* A step submitting a stop task is the destructor's i-th (dtor_i counts
\* from 0) and finds the counter at i - 1; the counter moves by +1 or not
\* at all.
C15_Sequential ==
  /\ (IsDropStep /\ LastDrop.task.kind = "quit") =>
        /\ exit_mark_ = dtor_i
        /\ Cardinality({q \in 1..Len(drop_log) :
                           drop_log[q].task.kind = "quit"}) = dtor_i
  /\ exit_mark_' \in {exit_mark_, exit_mark_ + 1}

\* C15: teardown is sequential: the i-th stop task is submitted only once
\* the counter is i - 1, at most one stop task is ever pending (queued or
\* held by a worker that has not left its loop), and the counter goes from
\* 0 to num_threads in steps of one.
C15_OneStopAtATime ==
  /\ [](/\ Cardinality(PendingStops) <= 1
        /\ exit_mark_ \in 0..kNumThreads)
  /\ [][C15_Sequential]_vars

\* The second stop task is in the queue, submitted with the counter at 1.
C15_Witness ==
  /\ exit_mark_ = 1
  /\ dtor_i = 1
  /\ \E i \in 1..Len(waiting_queue_) : waiting_queue_[i].kind = "quit"

\* ---- C16 -----------------------------------------------------------------
NoSentinelIn(seq) == \A i \in 1..Len(seq) : seq[i] # ExitMarkPtr

\* A worker's step out of Cycle is the end of a stop task it holds, and it
\* pushes nothing.
C16_StopStep ==
  \A w \in Workers :
     (pc[w] # "stopped" /\ pc'[w] = "stopped") =>
        /\ task[w].kind = "quit"
        /\ result[w] = ExitMarkPtr
        /\ results_queue_' = results_queue_
        /\ pub_log' = pub_log

\* C16: the sentinel is never in the result buffer, never was pushed to it
\* and never was returned by GrabAllResults; a worker whose Execute returned
\* the sentinel is in the stop branch or stopped, never at the push; an
\* ordinary task that left the queue and is not finished is held by a
\* worker that is running or publishing it, never by one that is stopping;
\* a worker leaves its loop only at the end of a stop task.
C16_SentinelNeverResult ==
  /\ [](/\ NoSentinelIn(results_queue_)
        /\ NoSentinelIn(pub_log)
        /\ NoSentinelIn(Drained(drain_log))
        /\ \A w \in Workers :
              result[w] = ExitMarkPtr => pc[w] \in {"L175", "L175_write"}
        /\ \A t \in InFlight :
              t.kind = "task" =>
                 \E w \in Workers :
                    task[w] = t /\ pc[w] \in {"L171", "L178", "L179"})
  /\ [][C16_StopStep]_vars

\* A worker has stopped on the sentinel after the pool published a value
\* that a drain returned: the sentinel is in no buffer.
C16_Witness ==
  /\ StoppedWorkers # {}
  /\ Drained(drain_log) # <<>>
  /\ \E w \in Workers : pc[w] = "L179"

\* ---- C17 -----------------------------------------------------------------
\* Where a pushed value is now: <<d, i>> for the i-th value returned by the
\* d-th call of GrabAllResults, <<Len(drain_log) + 1, i>> for the i-th value
\* still in the buffer, <<0, 0>> if it is nowhere.
WhereIs(r) ==
  IF \E d \in 1..Len(drain_log) :
        \E i \in 1..Len(drain_log[d].res) : drain_log[d].res[i] = r
    THEN LET d == CHOOSE d \in 1..Len(drain_log) :
                     \E i \in 1..Len(drain_log[d].res) : drain_log[d].res[i] = r
         IN  <<d, CHOOSE i \in 1..Len(drain_log[d].res) : drain_log[d].res[i] = r>>
    ELSE IF \E i \in 1..Len(results_queue_) : results_queue_[i] = r
    THEN <<Len(drain_log) + 1,
           CHOOSE i \in 1..Len(results_queue_) : results_queue_[i] = r>>
    ELSE <<0, 0>>

\* An earlier drain, or the same drain (or the buffer) and an earlier place.
ComesBefore(a, b) ==
  /\ a[1] >= 1
  /\ \/ a[1] < b[1]
     \/ a[1] = b[1] /\ a[2] < b[2]

\* The place of value r in the order in which Execute calls returned.
DoneIndex(r) == CHOOSE i \in 1..Len(done_log) : done_log[i] = r

\* Values leave the pool in the order they were pushed.
C17_PublicationFifo ==
  \A i, j \in 1..Len(pub_log) :
     i < j => ComesBefore(WhereIs(pub_log[i]), WhereIs(pub_log[j]))

\* Values are pushed in the order their Execute calls returned.
C17_FollowsCompletion ==
  \A i, j \in 1..Len(pub_log) :
     i < j => DoneIndex(pub_log[i]) < DoneIndex(pub_log[j])

\* C17 as stated: the result buffer is FIFO in publication order (a value
\* published before another precedes it within a drain or is returned by an
\* earlier drain), and publication order follows completion order.
C17_FifoInCompletionOrder ==
  /\ C17_PublicationFifo
  /\ C17_FollowsCompletion

\* C17, amended: the result buffer is FIFO in publication order; a value is
\* published only after its Execute returned, and in a pool of one worker
\* in the order of completion, which is the order of submission.
C17_FifoInPushOrder ==
  /\ C17_PublicationFifo
  /\ \A i \in 1..Len(pub_log) : \E j \in 1..Len(done_log) : done_log[j] = pub_log[i]
  /\ kNumThreads = 1 =>
        /\ C17_FollowsCompletion
        /\ \A i, j \in 1..Len(pub_log) : i < j => pub_log[i] < pub_log[j]

\* Two workers: the value of the task submitted and completed second was
\* pushed first and returned by a drain; the other is still in the buffer.
C17_Witness ==
  /\ kNumThreads = 2
  /\ Len(pub_log) = 2
  /\ pub_log[1] > pub_log[2]
  /\ done_log = <<pub_log[2], pub_log[1]>>
  /\ Drained(drain_log) = <<pub_log[1]>>
  /\ results_queue_ = <<pub_log[2]>>

\* ---- C18 -----------------------------------------------------------------
\* What the queries show of a pool at rest: no task waiting, every worker
\* flagged idle.
Quiescent ==
  /\ QueryWaitingQueueCount = 0
  /\ QueryIdleThreadsCount = kNumThreads

\* The value task id returned is in the result buffer or was returned by a
\* call of GrabAllResults.
ResultDelivered(id) ==
  \/ \E i \in 1..Len(results_queue_) : results_queue_[i] = id
  \/ \E i \in 1..Len(Drained(drain_log)) : Drained(drain_log)[i] = id

\* C18: before teardown, whenever the task queue is empty and all workers
\* are flagged idle, every ordinary task Drop accepted has been executed and
\* every value returned by one is in the result buffer or was drained; a
\* worker flagged idle holds no task, so never one whose result is still to
\* be pushed.
C18_QuiescenceObservable ==
  /\ (owner_pc = "alive" /\ Quiescent) =>
        \A id \in 1..Len(drop_log) :
           (drop_log[id].ret /\ drop_log[id].task.kind = "task") =>
              /\ exec_count[id] = 1
              /\ drop_log[id].task.ret = "val" => ResultDelivered(id)
  /\ \A w \in Workers :
        threads_idle_[w] =>
           /\ task[w] = NoTask
           /\ pc[w] \notin {"L171", "L178", "L179"}

\* A pool of two workers at rest before teardown, after two accepted tasks:
\* one value was drained, the other is in the buffer.
C18_Witness ==
  /\ owner_pc = "alive"
  /\ kNumThreads = 2
  /\ Quiescent
  /\ Len(AcceptedLog) = 2
  /\ Len(Drained(drain_log)) = 1
  /\ QueryResultsCount = 1

\* ---- C19 -----------------------------------------------------------------
\* The mutex worker w is about to lock, if any.
WaitsFor(w) ==
  CASE pc[w] \in {"L158", "L160_woken"} -> "waiting_queue_mtx_"
    [] pc[w] \in {"L163", "L183"} -> "threads_idle_mtx_"
    [] pc[w] = "L178" -> "results_queue_mtx_"
    [] OTHER -> "none"

\* Worker w is blocked on a mutex that worker v owns.
BlockedOn(w, v) == WaitsFor(w) \in HeldBy(v)

\* A set of workers each blocked on a mutex owned by a worker of the set.
WaitCycle(S) == S # {} /\ \A w \in S : \E v \in S : BlockedOn(w, v)

\* C19: the mutexes never deadlock: a worker that locks a mutex while it
\* owns one owns the task-queue mutex and locks the idle-map mutex; no
\* worker locks the task-queue or the result-buffer mutex while it owns the
\* idle-map mutex; no set of workers is blocked in a cycle, not even a
\* worker on itself; and a worker that owns a mutex and is not blocked can
\* take its next step.
C19_NoMutexDeadlock ==
  /\ \A w \in Workers :
        (HeldBy(w) # {} /\ WaitsFor(w) # "none") =>
           /\ HeldBy(w) = {"waiting_queue_mtx_"}
           /\ WaitsFor(w) = "threads_idle_mtx_"
  /\ \A w \in Workers :
        "threads_idle_mtx_" \in HeldBy(w) =>
           WaitsFor(w) \notin {"waiting_queue_mtx_", "results_queue_mtx_"}
  /\ \A S \in SUBSET Workers : ~WaitCycle(S)
  /\ \A w \in Workers :
        (HeldBy(w) # {} /\ \A v \in Workers : ~BlockedOn(w, v)) =>
           ENABLED Cycle(w)

\* A worker that owns the task-queue mutex is blocked on the idle-map mutex,
\* which another worker owns while finishing its iteration.
C19_Witness ==
  \E w, v \in Workers :
     /\ pc[w] = "L163"
     /\ HeldBy(w) = {"waiting_queue_mtx_"}
     /\ pc[v] = "L184"
     /\ BlockedOn(w, v)

====
